---- MODULE Spec2Model ----
(***************************************************************************)
(* Model of jupyter_remotefs: the download handler (api/download.py) and   *)
(* the model-building functions it calls (download.py).                    *)
(*                                                                         *)
(* A Python string is a sequence of one-character strings, so that split,  *)
(* strip, basename, endswith and os.path.join are computed, not assumed.   *)
(* A Contents API model is a record; the "content" of a directory model is *)
(* a sequence of models.                                                   *)
(***************************************************************************)
EXTENDS Integers, Sequences, FiniteSets, TLC

VARIABLES
  inputs,        \* which requests and responses occur: "any" or "few"
  running,       \* the task that holds the event loop, 0 when it is free
  pc,            \* per task: position in post()
  parameters,    \* per task: json.loads(self.request.body)
  unzip,         \* per task: the local variable unzip of post()
  response,      \* per task: http_response of download_as_model
  zipped_model,  \* per task: the model returned by download_as_model
  tree,          \* per task: the local variable tree of unzip_as_model
  model,         \* per task: the model post() hands to the contents manager
  todo,          \* per task: the models save_unzipped_model still has to visit
  calls,         \* every contents_manager.save call, in the order made
  fetches,       \* per task: number of http_client.fetch calls
  reply,         \* per task: what self.finish sent
  error          \* per task: the exception that ended post()

vars == <<inputs, running, pc, parameters, unzip, response, zipped_model,
          tree, model, todo, calls, fetches, reply, error>>

-----------------------------------------------------------------------------
(* Bounds *)

MaxEntries == 3
NumTasks == 2

-----------------------------------------------------------------------------
(* Python string operations *)

SEP == "/"

ZIP_SUFFIX == <<".", "z", "i", "p">>

TEXT_PREFIX == <<"t", "e", "x", "t">>

EndsWith(s, suffix) ==
  /\ Len(s) >= Len(suffix)
  /\ SubSeq(s, Len(s) - Len(suffix) + 1, Len(s)) = suffix

StartsWith(s, prefix) ==
  /\ Len(s) >= Len(prefix)
  /\ SubSeq(s, 1, Len(prefix)) = prefix

Max(S) == CHOOSE m \in S : \A k \in S : k <= m

Min(S) == CHOOSE m \in S : \A k \in S : m <= k

SepAt(s) == {i \in 1..Len(s) : s[i] = SEP}

\* s.split('/')
RECURSIVE Split(_)
Split(s) ==
  IF SepAt(s) = {} THEN <<s>>
  ELSE LET i == Min(SepAt(s))
       IN <<SubSeq(s, 1, i - 1)>> \o Split(SubSeq(s, i + 1, Len(s)))

\* s.rstrip('/')
RECURSIVE RStrip(_)
RStrip(s) ==
  IF Len(s) > 0 /\ s[Len(s)] = SEP THEN RStrip(SubSeq(s, 1, Len(s) - 1)) ELSE s

\* s.lstrip('/')
RECURSIVE LStrip(_)
LStrip(s) ==
  IF Len(s) > 0 /\ s[1] = SEP THEN LStrip(Tail(s)) ELSE s

\* s.strip('/')
Strip(s) == LStrip(RStrip(s))

\* os.path.basename(p): what follows the last '/'
Basename(p) ==
  LET i == IF SepAt(p) = {} THEN 0 ELSE Max(SepAt(p))
  IN SubSeq(p, i + 1, Len(p))

\* os.path.join(a, b)
OsPathJoin(a, b) ==
  IF StartsWith(b, <<SEP>>) THEN b
  ELSE IF a = <<>> \/ EndsWith(a, <<SEP>>) THEN a \o b
  ELSE a \o <<SEP>> \o b

-----------------------------------------------------------------------------
(* Bytes, encodings and the zip archive *)

B64Encode(bytes) == [b64 |-> bytes]

B64Decode(str) == str.b64

Utf8Decode(bytes) == [text |-> bytes]

\* zip_file.read(file_path): the decompressed bytes of the entry
ZipRead(bytes, file_path) == [entry |-> file_path]

Null == [type |-> "null"]

Ok(v) == [ok |-> TRUE, val |-> v]

Raise(e) == [ok |-> FALSE, err |-> e]

-----------------------------------------------------------------------------
(* download_as_model *)

\* the check made before the fetch
DownloadPathRejected(path) == EndsWith(path, <<SEP>>)

\* the content type never looked at
IsTextResponseNever(headers) == FALSE

IsTextResponse(headers) ==
  /\ "Content-Type" \in DOMAIN headers
  /\ StartsWith(headers["Content-Type"], TEXT_PREFIX)

\* the part of download_as_model that runs once the fetch has returned
DownloadAsModel(path, http_response) ==
  IF IsTextResponse(http_response.headers)
  THEN IF http_response.body.utf8
       THEN Ok([name |-> Basename(path), path |-> path, type |-> "file",
                format |-> "text", mimetype |-> "text/plain",
                content |-> Utf8Decode(http_response.body)])
       ELSE Raise("UnicodeDecodeError")
  ELSE Ok([name |-> Basename(path), path |-> path, type |-> "file",
           format |-> "base64", mimetype |-> "application/octet-stream",
           content |-> B64Encode(http_response.body)])

-----------------------------------------------------------------------------
(* wrap_in_parent_models *)

ParentComponents(path) == SubSeq(Split(path), 1, Len(Split(path)) - 1)

\* the 'path' given to the i-th directory the loop creates
RECURSIVE ParentPath(_, _)
ParentPath(components, i) ==
  IF i = 1 THEN components[1]
  ELSE ParentPath(components, i - 1) \o <<SEP>> \o components[i]

\* the i-th directory the loop creates, as it is once the function returns
RECURSIVE ParentModel(_, _, _)
ParentModel(components, i, m) ==
  [name |-> components[i],
   path |-> ParentPath(components, i),
   type |-> "directory",
   content |-> IF i = Len(components) THEN <<m>>
               ELSE <<ParentModel(components, i + 1, m)>>]

\* after the loop 'parent' is the directory created last
WrapInParentModels(m) ==
  IF EndsWith(m.path, <<SEP>>) THEN Raise("ValueError")
  ELSE LET components == ParentComponents(m.path)
       IN IF components = <<>> THEN Ok(m)
          ELSE Ok(ParentModel(components, Len(components), m))

-----------------------------------------------------------------------------
(* unzip_as_model, up to the call of wrap_in_parent_models *)

\* the node of t that the index path ip leads to
RECURSIVE GetAt(_, _)
GetAt(t, ip) ==
  IF ip = <<>> THEN t ELSE GetAt(t.content[Head(ip)], Tail(ip))

\* t after node['content'].append(child) on the node that ip leads to
RECURSIVE AppendAt(_, _, _)
AppendAt(t, ip, child) ==
  IF ip = <<>> THEN [t EXCEPT !.content = Append(@, child)]
  ELSE [t EXCEPT !.content[Head(ip)] = AppendAt(@, Tail(ip), child)]

\* the list 'components' of one entry name
Components(file_path) ==
  IF EndsWith(file_path, <<SEP>>)
  THEN LET parts == Split(SubSeq(file_path, 1, Len(file_path) - 1))
       IN [i \in 1..Len(parts) |-> parts[i] \o <<SEP>>]
  ELSE LET parts == Split(file_path)
       IN [i \in 1..Len(parts) |->
             IF i = Len(parts) THEN RStrip(parts[i] \o <<SEP>>)
             ELSE parts[i] \o <<SEP>>]

\* the inner search: 'continue' goes on with the search, so that parent is
\* the last child of that name, or stays what it was
SearchParent(t, ip, name) ==
  LET content == GetAt(t, ip).content
      found == {i \in 1..Len(content) : content[i].name = name}
  IN IF found = {} THEN ip ELSE Append(ip, Max(found))

\* one turn of 'for component in components'; st is the tree built so far,
\* the index path of 'parent' in it, and the exception raised, if any
ComponentStep(st, component, file_path, bytes) ==
  IF st.err # "none" THEN st
  ELSE IF GetAt(st.tree, st.parent).type # "directory"
  THEN [st EXCEPT !.err = "AssertionError"]
  ELSE IF Strip(component) = <<>> THEN st
  ELSE IF EndsWith(component, <<SEP>>)
  THEN LET name == RStrip(component)
           ip == SearchParent(st.tree, st.parent, name)
           parent == GetAt(st.tree, ip)
           child == [name |-> name,
                     path |-> OsPathJoin(parent.path, name),
                     type |-> "directory",
                     content |-> <<>>]
       IN IF parent.type # "directory"
          THEN \* the content of a file model is a str: no append
               [st EXCEPT !.err = "AttributeError"]
          ELSE [tree |-> AppendAt(st.tree, ip, child),
                parent |-> Append(ip, Len(parent.content) + 1),
                err |-> "none"]
  ELSE LET file_name == RStrip(component)
           parent == GetAt(st.tree, st.parent)
           child == [name |-> file_name,
                     path |-> OsPathJoin(parent.path, file_name),
                     type |-> "file",
                     format |-> "base64",
                     content |-> B64Encode(ZipRead(bytes, file_path)),
                     mimetype |-> "application/octet-stream"]
       IN [tree |-> AppendAt(st.tree, st.parent, child),
           parent |-> Append(st.parent, Len(parent.content) + 1),
           err |-> "none"]

RECURSIVE ComponentsLoop(_, _, _, _, _)
ComponentsLoop(st, components, i, file_path, bytes) ==
  IF i > Len(components) THEN st
  ELSE ComponentsLoop(ComponentStep(st, components[i], file_path, bytes),
                      components, i + 1, file_path, bytes)

\* 'for file_path in zip_file.namelist()': parent starts at the tree
RECURSIVE NamelistLoop(_, _, _)
NamelistLoop(st, i, bytes) ==
  IF i > Len(bytes.names) \/ st.err # "none" THEN st
  ELSE NamelistLoop(
         ComponentsLoop([st EXCEPT !.parent = <<>>],
                        Components(bytes.names[i]), 1, bytes.names[i], bytes),
         i + 1, bytes)

ExtractTree(zipped, model_path) ==
  IF zipped.format # "base64" THEN Raise("TypeError")
  ELSE LET bytes == B64Decode(zipped.content)
       IN IF ~bytes.zip THEN Raise("BadZipFile")
          ELSE LET st == NamelistLoop(
                           [tree |-> [name |-> Basename(model_path),
                                      path |-> model_path,
                                      type |-> "directory",
                                      content |-> <<>>],
                            parent |-> <<>>,
                            err |-> "none"], 1, bytes)
               IN IF st.err # "none" THEN Raise(st.err) ELSE Ok(st.tree)

UnzipAsModel(zipped, model_path) ==
  LET r == ExtractTree(zipped, model_path)
  IN IF r.ok THEN WrapInParentModels(r.val) ELSE r

-----------------------------------------------------------------------------
(* What clients and remote servers send *)

URL_PLAIN == <<"u">>

URL_ZIP == <<"u", ".", "z", "i", "p">>

TEXT_PLAIN == <<"t", "e", "x", "t", "/", "p", "l", "a", "i", "n">>

IMAGE_PNG == <<"i", "m", "a", "g", "e", "/", "p", "n", "g">>

LocalPaths ==
  { <<"f">>,
    <<"d", "/", "f">>,
    <<"d", "/", "e", "/", "f">>,
    <<"d", "/", "/", "f">>,
    <<"/", "f">>,
    <<"d", "/">> }

UnzipValues == {"none", "zip", "auto", "banana"}

WellFormed(p) == {"remote_url", "local_path"} \subseteq DOMAIN p

RequestsWithKeys ==
  { ("remote_url" :> u) @@ ("local_path" :> l) :
      u \in {URL_PLAIN, URL_ZIP}, l \in LocalPaths }
  \cup
  { ("remote_url" :> u) @@ ("local_path" :> l) @@ ("unzip" :> z) :
      u \in {URL_PLAIN, URL_ZIP}, l \in LocalPaths, z \in UnzipValues }

RequestsWithoutKeys ==
  { ("remote_url" :> URL_PLAIN) @@ ("unzip" :> z) : z \in UnzipValues }
  \cup
  { ("local_path" :> <<"f">>) @@ ("unzip" :> z) : z \in UnzipValues }
  \cup
  { <<>> }

EntryNames ==
  { <<"a", "/">>,
    <<"a", "/", "x">>,
    <<"a", "/", "y">>,
    <<"b", "/", "z">>,
    <<"a">> }

Namelists == UNION { [1..k -> EntryNames] : k \in 0..MaxEntries }

Bodies ==
  { [zip |-> TRUE, utf8 |-> u, names |-> n] : u \in BOOLEAN, n \in Namelists }
  \cup
  { [zip |-> FALSE, utf8 |-> u, names |-> <<>>] : u \in BOOLEAN }

HeaderSets ==
  { <<>>, "Content-Type" :> TEXT_PLAIN, "Content-Type" :> IMAGE_PNG }

Responses(bodies) ==
  { [status |-> "error"] }
  \cup
  { [status |-> "ok", headers |-> h, body |-> b] : h \in HeaderSets, b \in bodies }

AllRequests == RequestsWithKeys \cup RequestsWithoutKeys

AllResponses == Responses(Bodies)

\* the few requests and responses used when several tasks share the loop
FewRequests ==
  { ("remote_url" :> URL_PLAIN) @@ ("local_path" :> <<"f">>),
    ("remote_url" :> URL_PLAIN) @@ ("local_path" :> <<"d", "/", "f">>)
      @@ ("unzip" :> "zip") }

FewResponses ==
  Responses({ [zip |-> TRUE, utf8 |-> FALSE,
               names |-> << <<"a", "/", "x">> >>] })

Requests == IF inputs = "any" THEN AllRequests ELSE FewRequests

ServerResponses == IF inputs = "any" THEN AllResponses ELSE FewResponses

-----------------------------------------------------------------------------
(* RemoteFSDownloadHandler.post and save_unzipped_model *)

\* "auto" taken for "zip" whatever the url
ResolveUnzipAutoZip(p) ==
  LET given == IF "unzip" \in DOMAIN p THEN p["unzip"] ELSE "none"
  IN IF given = "auto" THEN "zip" ELSE given

\* unzip as post() has it before the dispatch
ResolveUnzip(p) ==
  LET given == IF "unzip" \in DOMAIN p THEN p["unzip"] ELSE "none"
  IN IF given = "auto"
     THEN IF EndsWith(p["remote_url"], ZIP_SUFFIX) THEN "zip" ELSE "none"
     ELSE given

\* an unknown value taken for "none"
DispatchLenient(z) == IF z = "zip" THEN "unzip" ELSE "download"

\* the branch of the if/elif/else on unzip
Dispatch(z) ==
  IF z = "none" THEN "download"
  ELSE IF z = "zip" THEN "unzip"
  ELSE "invalid"

\* the path given to download_as_model
DownloadPath(p, z) ==
  IF z = "zip" THEN p["local_path"] \o ZIP_SUFFIX ELSE p["local_path"]

\* as if each save were awaited
SuspendsAtSave(p) == p \in {"fetching", "persisting"}

\* the coroutine gives the event loop away only at a yield
Suspends(p) == p = "fetching"

Releases(p) == Suspends(p) \/ p \in {"done", "failed"}

\* the fetched model taken for the model to persist in either mode
NextPhaseNoExtract(p, z) ==
  IF p = "fetching" THEN "persisting"
  ELSE IF p = "extracting" THEN "wrapping"
  ELSE "persisting"

\* where post() goes on once the step at position p has succeeded
NextPhase(p, z) ==
  IF p = "fetching" THEN (IF z = "zip" THEN "extracting" ELSE "persisting")
  ELSE IF p = "extracting" THEN "wrapping"
  ELSE "persisting"

\* the exception of a save swallowed
AfterSaveSwallowed(ok) == "persisting"

\* an exception of contents_manager.save leaves post()
AfterSave(ok) == IF ok THEN "persisting" ELSE "failed"

\* what save_unzipped_model hands to contents_manager.save
SavedModel(m) ==
  IF m.type = "directory"
  THEN [name |-> m.name, path |-> m.path, type |-> m.type]
  ELSE m

\* the children visited last to first
ChildrenReversed(m) ==
  IF m.type = "directory"
  THEN [i \in 1..Len(m.content) |-> m.content[Len(m.content) + 1 - i]]
  ELSE <<>>

\* the children save_unzipped_model goes on to visit
Children(m) == IF m.type = "directory" THEN m.content ELSE <<>>

CanRun(t) == running = t \/ running = 0

Goto(t, p, e) ==
  /\ pc' = [pc EXCEPT ![t] = p]
  /\ error' = [error EXCEPT ![t] = e]
  /\ running' = IF Releases(p) THEN 0 ELSE t

\* post() from its first line to the yield of the fetch
Post(t) ==
  /\ pc[t] = "idle"
  /\ CanRun(t)
  /\ \E p \in Requests :
       /\ parameters' = [parameters EXCEPT ![t] = p]
       /\ IF ~WellFormed(p)
          THEN /\ Goto(t, "failed", "malformed request")
               /\ UNCHANGED <<unzip, fetches>>
          ELSE /\ unzip' = [unzip EXCEPT ![t] = ResolveUnzip(p)]
               /\ IF Dispatch(ResolveUnzip(p)) = "invalid"
                  THEN /\ Goto(t, "failed", "invalid unzip value")
                       /\ UNCHANGED fetches
                  ELSE IF DownloadPathRejected(DownloadPath(p, ResolveUnzip(p)))
                  THEN /\ Goto(t, "failed", "ValueError")
                       /\ UNCHANGED fetches
                  ELSE /\ Goto(t, "fetching", "none")
                       /\ fetches' = [fetches EXCEPT ![t] = @ + 1]
  /\ UNCHANGED <<inputs, response, zipped_model, tree, model, todo, calls, reply>>

\* the fetch returns or raises; download_as_model builds its model
FetchReturn(t) ==
  /\ pc[t] = "fetching"
  /\ CanRun(t)
  /\ \E r \in ServerResponses :
       /\ response' = [response EXCEPT ![t] = r]
       /\ IF r.status = "error"
          THEN /\ Goto(t, "failed", "HTTPError")
               /\ UNCHANGED <<zipped_model, model, todo>>
          ELSE LET d == DownloadAsModel(DownloadPath(parameters[t], unzip[t]), r)
               IN IF ~d.ok
                  THEN /\ Goto(t, "failed", d.err)
                       /\ UNCHANGED <<zipped_model, model, todo>>
                  ELSE /\ Goto(t, NextPhase("fetching", unzip[t]), "none")
                       /\ IF Dispatch(unzip[t]) = "unzip"
                          THEN /\ zipped_model' = [zipped_model EXCEPT ![t] = d.val]
                               /\ UNCHANGED <<model, todo>>
                          ELSE /\ model' = [model EXCEPT ![t] = d.val]
                               /\ todo' = [todo EXCEPT ![t] = <<d.val>>]
                               /\ UNCHANGED zipped_model
  /\ UNCHANGED <<inputs, parameters, unzip, tree, calls, fetches, reply>>

\* unzip_as_model up to the end of its loop
Extract(t) ==
  /\ pc[t] = "extracting"
  /\ CanRun(t)
  /\ LET r == ExtractTree(zipped_model[t], parameters[t]["local_path"])
     IN IF r.ok
        THEN /\ tree' = [tree EXCEPT ![t] = r.val]
             /\ Goto(t, NextPhase("extracting", unzip[t]), "none")
        ELSE /\ Goto(t, "failed", r.err)
             /\ UNCHANGED tree
  /\ UNCHANGED <<inputs, parameters, unzip, response, zipped_model, model,
                 todo, calls, fetches, reply>>

\* the last line of unzip_as_model
Wrap(t) ==
  /\ pc[t] = "wrapping"
  /\ CanRun(t)
  /\ LET r == WrapInParentModels(tree[t])
     IN IF r.ok
        THEN /\ model' = [model EXCEPT ![t] = r.val]
             /\ todo' = [todo EXCEPT ![t] = <<r.val>>]
             /\ Goto(t, NextPhase("wrapping", unzip[t]), "none")
        ELSE /\ Goto(t, "failed", r.err)
             /\ UNCHANGED <<model, todo>>
  /\ UNCHANGED <<inputs, parameters, unzip, response, zipped_model, tree,
                 calls, fetches, reply>>

\* one call of contents_manager.save
Save(t) ==
  /\ pc[t] = "persisting"
  /\ CanRun(t)
  /\ todo[t] # <<>>
  /\ \E ok \in BOOLEAN :
       LET m == Head(todo[t])
       IN /\ calls' = Append(calls, [task |-> t, model |-> SavedModel(m),
                                     path |-> m.path, ok |-> ok])
          /\ todo' = [todo EXCEPT ![t] =
                        IF AfterSave(ok) = "persisting"
                        THEN (IF ok THEN Children(m) ELSE <<>>) \o Tail(todo[t])
                        ELSE <<>>]
          /\ Goto(t, AfterSave(ok), IF ok THEN "none" ELSE "StorageError")
  /\ UNCHANGED <<inputs, parameters, unzip, response, zipped_model, tree,
                 model, fetches, reply>>

\* self.finish(json.dumps({"message": "ok"}))
Finish(t) ==
  /\ pc[t] = "persisting"
  /\ CanRun(t)
  /\ todo[t] = <<>>
  /\ reply' = [reply EXCEPT ![t] = "ok"]
  /\ Goto(t, "done", error[t])
  /\ UNCHANGED <<inputs, parameters, unzip, response, zipped_model, tree,
                 model, todo, calls, fetches>>

Tasks == DOMAIN pc

InitTasks(T, in) ==
  /\ inputs = in
  /\ running = 0
  /\ pc = [t \in T |-> "idle"]
  /\ parameters = [t \in T |-> Null]
  /\ unzip = [t \in T |-> "unset"]
  /\ response = [t \in T |-> Null]
  /\ zipped_model = [t \in T |-> Null]
  /\ tree = [t \in T |-> Null]
  /\ model = [t \in T |-> Null]
  /\ todo = [t \in T |-> <<>>]
  /\ calls = <<>>
  /\ fetches = [t \in T |-> 0]
  /\ reply = [t \in T |-> "none"]
  /\ error = [t \in T |-> "none"]

\* one request, any input
Init == InitTasks({1}, "any")

\* several requests on the same event loop
InitConc == InitTasks(1..NumTasks, "few")

Next ==
  \E t \in Tasks :
    \/ Post(t)
    \/ FetchReturn(t)
    \/ Extract(t)
    \/ Wrap(t)
    \/ Save(t)
    \/ Finish(t)

Spec == Init /\ [][Next]_vars

SpecConc == InitConc /\ [][Next]_vars

-----------------------------------------------------------------------------
(* Vocabulary of the properties *)

\* the save calls of task t, in the order made
TaskCalls(t) == SelectSeq(calls, LAMBDA c : c.task = t)

RECURSIVE Flatten(_)
Flatten(ss) == IF ss = <<>> THEN <<>> ELSE Head(ss) \o Flatten(Tail(ss))

\* the records of a tree in depth-first pre-order
RECURSIVE Preorder(_)
Preorder(m) ==
  IF m.type = "directory"
  THEN <<m>> \o Flatten([i \in 1..Len(m.content) |-> Preorder(m.content[i])])
  ELSE <<m>>

\* a directory record as the storage backend is to receive it
ContentFree(m) ==
  IF m.type = "directory"
  THEN [name |-> m.name, path |-> m.path, type |-> "directory"]
  ELSE m

\* the slash-join of the first i components
RECURSIVE JoinFirst(_, _)
JoinFirst(components, i) ==
  IF i = 0 THEN <<>>
  ELSE IF i = 1 THEN components[1]
  ELSE JoinFirst(components, i - 1) \o <<SEP>> \o components[i]

IsPrefix(s, u) == Len(s) <= Len(u) /\ SubSeq(u, 1, Len(s)) = s

-----------------------------------------------------------------------------
(* C1 *)

\* m heads a chain of directories, the one at level i having the path of the
\* first i components and one child, the last one's child being rec
RECURSIVE IsAncestorChain(_, _, _, _)
IsAncestorChain(m, components, i, rec) ==
  /\ m.type = "directory"
  /\ m.path = JoinFirst(components, i)
  /\ Len(m.content) = 1
  /\ IF i = Len(components) - 1 THEN m.content[1] = rec
     ELSE IsAncestorChain(m.content[1], components, i + 1, rec)

\* C1: wrap_in_parent_models, given a record whose path has n >= 1 ancestor
\* components, returns the outermost ancestor directory, from which a chain
\* of n one-child directories descends to the record given.
C1_ReturnsOutermostAncestor ==
  \A t \in Tasks :
    ( /\ pc[t] \in {"persisting", "done"}
      /\ Dispatch(unzip[t]) = "unzip"
      /\ Len(Split(tree[t].path)) >= 2
      /\ \A i \in 1..Len(Split(tree[t].path)) : Split(tree[t].path)[i] # <<>> )
    => IsAncestorChain(model[t], Split(tree[t].path), 1, tree[t])

-----------------------------------------------------------------------------
(* C3 *)

\* C3: the save calls of a request are the depth-first pre-order of its tree:
\* a directory, without its children list, before its subtree, children in
\* the order stored, a child's subtree before the next sibling, and once the
\* traversal is over every record saved exactly once at its own path.
C3_SavesInPreorder ==
  \A t \in Tasks :
    model[t] # Null =>
      LET expected == Preorder(model[t])
          made == TaskCalls(t)
      IN /\ Len(made) <= Len(expected)
         /\ \A i \in 1..Len(made) :
              /\ made[i].model = ContentFree(expected[i])
              /\ made[i].path = expected[i].path
              /\ made[i].model.type = "directory"
                   => "content" \notin DOMAIN made[i].model
         /\ pc[t] = "done" => Len(made) = Len(expected)

\* a finished request whose tree has a directory with a subdirectory followed
\* by a sibling
C3_Witness ==
  \E t \in Tasks :
    /\ pc[t] = "done"
    /\ model[t].type = "directory"
    /\ Len(model[t].content) >= 2
    /\ model[t].content[1].type = "directory"
    /\ Len(model[t].content[1].content) >= 1
    /\ Len(TaskCalls(t)) >= 4

-----------------------------------------------------------------------------
(* C4 *)

AncestorCount(p) == Len(Split(p["local_path"])) - 1

\* the request asks for no extraction
AsksForNone(p) ==
  /\ WellFormed(p)
  /\ \/ "unzip" \notin DOMAIN p
     \/ p["unzip"] = "none"
     \/ p["unzip"] = "auto" /\ ~EndsWith(p["remote_url"], ZIP_SUFFIX)

\* C4 as stated: with mode none the storage backend receives a save for each
\* ancestor directory of the target path, root first, before the file.
C4_NoneModeSavesAncestors ==
  \A t \in Tasks :
    (pc[t] = "done" /\ AsksForNone(parameters[t])) =>
      LET made == TaskCalls(t)
          k == AncestorCount(parameters[t])
      IN /\ Len(made) = k + 1
         /\ \A i \in 1..k :
              /\ made[i].model.type = "directory"
              /\ made[i].path = JoinFirst(Split(parameters[t]["local_path"]), i)
         /\ made[k + 1].model.type = "file"

\* C4 amended: with mode none the fetched file record is persisted as it is:
\* the storage backend receives one save, of the file record at the target
\* path, and no save of an ancestor directory.
C4_NoneModeSavesFileOnly ==
  \A t \in Tasks :
    (parameters[t] # Null /\ AsksForNone(parameters[t])) =>
      /\ \A i \in 1..Len(TaskCalls(t)) :
           /\ TaskCalls(t)[i].model.type = "file"
           /\ TaskCalls(t)[i].path = parameters[t]["local_path"]
           /\ TaskCalls(t)[i].model = model[t]
      /\ Len(TaskCalls(t)) <= 1
      /\ pc[t] = "done" => Len(TaskCalls(t)) = 1

\* a finished request with mode none (by "auto") whose target path has two
\* ancestors
C4_Witness ==
  \E t \in Tasks :
    /\ pc[t] = "done"
    /\ AsksForNone(parameters[t])
    /\ "unzip" \in DOMAIN parameters[t]
    /\ parameters[t]["unzip"] = "auto"
    /\ AncestorCount(parameters[t]) = 2
    /\ Len(TaskCalls(t)) = 1

-----------------------------------------------------------------------------
(* C5 *)

HasInvalidMode(p) ==
  /\ "unzip" \in DOMAIN p
  /\ p["unzip"] \notin {"none", "zip", "auto"}

\* C5: a request whose unzip mode is not none, zip or auto fails with the
\* invalid-mode error (if it carries remote_url and local_path at all), and
\* makes no fetch call and no save call.
C5_InvalidModeNoFetch ==
  \A t \in Tasks :
    (parameters[t] # Null /\ HasInvalidMode(parameters[t])) =>
      /\ pc[t] = "failed"
      /\ WellFormed(parameters[t]) => error[t] = "invalid unzip value"
      /\ fetches[t] = 0
      /\ TaskCalls(t) = <<>>
      /\ reply[t] = "none"

\* a request with both keys and mode "banana" has been handled
C5_Witness ==
  \E t \in Tasks :
    /\ parameters[t] # Null
    /\ WellFormed(parameters[t])
    /\ HasInvalidMode(parameters[t])
    /\ parameters[t]["unzip"] = "banana"
    /\ pc[t] = "failed"

-----------------------------------------------------------------------------
(* C2 *)

NoRepeats(names) ==
  \A i, j \in 1..Len(names) : names[i] = names[j] => i = j

\* the non-empty components of an entry name
EntryParts(e) == SelectSeq(Split(e), LAMBDA c : c # <<>>)

\* how many of them are directories
DirDepth(e) ==
  IF EndsWith(e, <<SEP>>) THEN Len(EntryParts(e)) ELSE Len(EntryParts(e)) - 1

\* the path of the first k components below the mount path
RECURSIVE Under(_, _, _)
Under(mount, parts, k) ==
  IF k = 0 THEN mount ELSE Under(mount, parts, k - 1) \o <<SEP>> \o parts[k]

ExpectedDirs(mount, names) ==
  UNION { { Under(mount, EntryParts(names[i]), k) : k \in 1..DirDepth(names[i]) } :
          i \in 1..Len(names) }

ExpectedFiles(mount, names) ==
  { Under(mount, EntryParts(names[i]), Len(EntryParts(names[i]))) :
      i \in { j \in 1..Len(names) : ~EndsWith(names[j], <<SEP>>) } }

\* the entries under whose name the path occurs
SeenAt(mount, names, path) ==
  { i \in 1..Len(names) :
      \E k \in 1..Len(EntryParts(names[i])) :
        Under(mount, EntryParts(names[i]), k) = path }

ExtractedAsStated(t, names) ==
  LET nodes == Preorder(t)
      at(path, type) ==
        { i \in 1..Len(nodes) : nodes[i].path = path /\ nodes[i].type = type }
  IN /\ \A d \in ExpectedDirs(t.path, names) : Cardinality(at(d, "directory")) = 1
     /\ \A f \in ExpectedFiles(t.path, names) : Cardinality(at(f, "file")) = 1
     /\ \A i \in 2..Len(nodes) :
          IF nodes[i].type = "directory"
          THEN nodes[i].path \in ExpectedDirs(t.path, names)
          ELSE nodes[i].path \in ExpectedFiles(t.path, names)
     /\ \A i \in 1..Len(nodes) :
          nodes[i].type = "directory" =>
            LET c == nodes[i].content
            IN /\ \A j \in 1..Len(c) :
                    c[j].path = nodes[i].path \o <<SEP>> \o c[j].name
               /\ \A j, k \in 1..Len(c) : c[j].name = c[k].name => j = k
               /\ \A j, k \in 1..Len(c) :
                    j < k =>
                      /\ SeenAt(t.path, names, c[j].path) # {}
                      /\ SeenAt(t.path, names, c[k].path) # {}
                      /\ Min(SeenAt(t.path, names, c[j].path))
                           < Min(SeenAt(t.path, names, c[k].path))

\* C2: for an entry list without repeated names, the tree extracted at mount
\* path M has exactly one directory record per distinct directory prefix, at
\* M/prefix; every file entry is a file record that is a direct child of the
\* directory of its prefix; no directory has two children of the same name;
\* and children are in first-seen order.
C2_OneDirectoryPerPrefix ==
  \A t \in Tasks :
    (tree[t] # Null /\ NoRepeats(B64Decode(zipped_model[t].content).names)) =>
      ExtractedAsStated(tree[t], B64Decode(zipped_model[t].content).names)

-----------------------------------------------------------------------------
(* C6 *)

\* the exceptions raised before the first save
EarlyErrors ==
  { "malformed request", "invalid unzip value", "ValueError", "HTTPError",
    "UnicodeDecodeError", "TypeError", "BadZipFile", "AssertionError",
    "AttributeError" }

\* C6: if an error occurs in the fetching, extracting or wrapping step, no
\* save call has been made and none is made afterwards, and no success
\* response is sent; a save call or a success response happens only after
\* fetch, extraction and wrapping have all completed without error.
C6_NoSaveBeforePersisting ==
  \A t \in Tasks :
    /\ error[t] \in EarlyErrors =>
         /\ pc[t] = "failed"
         /\ TaskCalls(t) = <<>>
         /\ reply[t] = "none"
    /\ (TaskCalls(t) # <<>> \/ reply[t] = "ok") =>
         /\ response[t] # Null
         /\ response[t].status = "ok"
         /\ model[t] # Null
         /\ Dispatch(unzip[t]) = "unzip" =>
              /\ tree[t] # Null
              /\ UnzipAsModel(zipped_model[t], parameters[t]["local_path"]).ok
              /\ model[t] =
                   UnzipAsModel(zipped_model[t], parameters[t]["local_path"]).val
    /\ pc[t] \in {"idle", "fetching", "extracting", "wrapping"} =>
         TaskCalls(t) = <<>> /\ reply[t] = "none"

\* a request with mode zip that failed in the wrapping step, after fetch and
\* extraction, its target path ending with a separator
C6_Witness ==
  \E t \in Tasks :
    /\ pc[t] = "failed"
    /\ error[t] = "ValueError"
    /\ tree[t] # Null
    /\ EndsWith(parameters[t]["local_path"], <<SEP>>)

-----------------------------------------------------------------------------
(* C7 *)

SaveFailureStops ==
  \A t \in Tasks :
    LET made == TaskCalls(t)
    IN /\ \A i \in 1..Len(made) - 1 : made[i].ok
       /\ (made # <<>> /\ ~made[Len(made)].ok) =>
            /\ pc[t] = "failed"
            /\ error[t] = "StorageError"
            /\ reply[t] = "none"
       /\ reply[t] = "ok" =>
            /\ \A i \in 1..Len(made) : made[i].ok
            /\ Len(made) = Len(Preorder(model[t]))

\* C7: a failed save ends the request: no save call follows it, the calls
\* made before stay as they are (there is no rollback call), and no success
\* response is sent; a success response is sent only after every record of
\* the tree has been saved without error.
C7_SaveFailureFailsRequest ==
  [](SaveFailureStops) /\ [][IsPrefix(calls, calls')]_vars

\* a request failed by the storage backend after two saves, with records of
\* its tree left unsaved
C7_Witness ==
  \E t \in Tasks :
    /\ pc[t] = "failed"
    /\ error[t] = "StorageError"
    /\ Len(TaskCalls(t)) = 3
    /\ Len(Preorder(model[t])) > 3

-----------------------------------------------------------------------------
(* C8 *)

\* the response declares a content type of the text family
DeclaresText(r) ==
  /\ "Content-Type" \in DOMAIN r.headers
  /\ Len(r.headers["Content-Type"]) >= 4
  /\ SubSeq(r.headers["Content-Type"], 1, 4) = <<"t", "e", "x", "t">>

\* C8 as stated: with mode zip the fetched record is always binary, so that
\* no successful fetch is followed by a format failure.
C8_ZipFetchAlwaysBinary ==
  \A t \in Tasks :
    (Dispatch(unzip[t]) = "unzip" /\ zipped_model[t] # Null) =>
      /\ zipped_model[t].format = "base64"
      /\ error[t] # "TypeError"

\* C8 amended: with mode zip the fetched record is binary exactly when the
\* response does not declare a text content type; a text record is followed
\* by a format failure, without extraction and without save.
C8_ZipFetchFormatByContentType ==
  \A t \in Tasks :
    (Dispatch(unzip[t]) = "unzip" /\ response[t] # Null
       /\ response[t].status = "ok" /\ error[t] # "UnicodeDecodeError") =>
      /\ zipped_model[t] # Null
      /\ zipped_model[t].path = parameters[t]["local_path"] \o ZIP_SUFFIX
      /\ zipped_model[t].format = "base64" <=> ~DeclaresText(response[t])
      /\ (zipped_model[t].format # "base64" /\ pc[t] # "extracting") =>
           /\ pc[t] = "failed"
           /\ error[t] = "TypeError"
           /\ tree[t] = Null
           /\ TaskCalls(t) = <<>>
      /\ tree[t] # Null => zipped_model[t].format = "base64"

\* a request with mode zip whose text response ended in the format failure
C8_Witness ==
  \E t \in Tasks :
    /\ Dispatch(unzip[t]) = "unzip"
    /\ zipped_model[t] # Null
    /\ zipped_model[t].format = "text"
    /\ DeclaresText(response[t])
    /\ error[t] = "TypeError"

-----------------------------------------------------------------------------
(* C9 *)

RecordShape(m) ==
  /\ ~EndsWith(m.path, <<SEP>>)
  /\ m.name = Split(m.path)[Len(Split(m.path))]

\* C9: every record of a tree returned by download_as_model, unzip_as_model
\* or wrap_in_parent_models, hence every record handed to the storage
\* backend, has a path that does not end with a separator and a name equal
\* to the last component of its path.
C9_RecordShape ==
  /\ \A t \in Tasks :
       model[t] # Null =>
         \A i \in 1..Len(Preorder(model[t])) : RecordShape(Preorder(model[t])[i])
  /\ \A i \in 1..Len(calls) : RecordShape(calls[i].model)

-----------------------------------------------------------------------------
(* C10 *)

\* C10: a request is interleaved with another only while it is suspended in
\* its fetch: extraction, wrapping and the persistence traversal run with
\* the event loop held, and the saves of one request are a contiguous block
\* of the global sequence of save calls.
C10_SavesContiguous ==
  /\ \A t \in Tasks :
       pc[t] \in {"extracting", "wrapping", "persisting"} => running = t
  /\ \A i, k \in 1..Len(calls) :
       (i < k /\ calls[i].task = calls[k].task) =>
         \A j \in i..k : calls[j].task = calls[i].task

\* one request has saved its tree while another, posted before, is still
\* suspended in its fetch
C10_Witness ==
  \E t, u \in Tasks :
    /\ t < u
    /\ pc[t] = "fetching"
    /\ pc[u] = "done"
    /\ Len(TaskCalls(u)) >= 2

====
